---- MODULE Spec2Model ----
(***************************************************************************)
(* Model of src/home.py: the mortgage / ETF scenario grid, the per-group   *)
(* optimisation and the detail lookup of the Streamlit script.             *)
(*                                                                         *)
(* Money is in whole euros.  Floating-point results (monthly payment,      *)
(* total repayment, simulated terminal values, net costs) are fixed-point  *)
(* numbers in 1/Schaal euro, truncated where the code's floats round.      *)
(* Interest rates are in tenths of a percent (38 = 3.8 %), ETF return and  *)
(* volatility in whole percent.                                            *)
(***************************************************************************)
EXTENDS Integers, Sequences, FiniteSets, TLC

\* ---- bounds of the model ------------------------------------------------
MaxLooptijd == 2      \* loan terms offered are 1..MaxLooptijd years
MaxBedrag == 2        \* prices and savings range up to MaxBedrag * Stap euro
MaxSimulaties == 2    \* Monte Carlo trials per cell are 1..MaxSimulaties
RngStates == 3        \* number of states of the process-global generator
MaxRuns == 2          \* executions of the script in one session

\* ---- program constants --------------------------------------------------
Stap == 1000          \* step of np.arange(0, totale_spaarpot + 1, 1000)

\* fixed-point scale: with 12 * 1000 the monthly rate annual_rate / 12 of a
\* rate given in tenths of a percent is the integer rente itself
Schaal == 12 * 1000

\* options of the two multiselect widgets
LooptijdOpties == 1..MaxLooptijd
RenteOpties == {25, 30, 38, 45, 50}

VARIABLES
  woningprijs,       \* st.sidebar.number_input "Woningprijs"
  totale_spaarpot,   \* st.sidebar.number_input "Totale spaarpot"
  looptijden,        \* multiselect result: a list without duplicates
  rentes,            \* multiselect result: a list without duplicates
  etf_rendement,     \* mean ETF return, percent
  etf_volatiliteit,  \* ETF volatility, percent
  simulaties,        \* number of Monte Carlo trials
  rng,               \* state of the process-global np.random generator
  pc,                \* position in the script
  cel,               \* number of grid combinations already visited
  results,           \* the list results / the DataFrame df built from it
  optimalisaties,    \* the list optimalisaties / opt_df
  groep,             \* number of groups already reduced
  looptijd_sel,      \* st.selectbox "Kies looptijd"
  rente_sel,         \* st.selectbox "Kies rentevoet"
  chosen_inbreng,    \* st.slider "Selecteer eigen inbreng"
  details,           \* df_sel[df_sel["Inbreng"] == chosen_inbreng]
  runs,              \* how many times the script has been started
  vorige             \* the scenario table of the previous execution

config == <<woningprijs, totale_spaarpot, looptijden, rentes, etf_rendement,
            etf_volatiliteit, simulaties>>
keuze == <<looptijd_sel, rente_sel, chosen_inbreng, details>>
vars == <<woningprijs, totale_spaarpot, looptijden, rentes, etf_rendement,
          etf_volatiliteit, simulaties, rng, pc, cel, results, optimalisaties,
          groep, looptijd_sel, rente_sel, chosen_inbreng, details, runs, vorige>>

Geen == 0 - 1   \* value of a selection widget that has not been evaluated

\* ---- AmortizationCalculator ----------------------------------------------

\* (1 + r) ** n in 1/Schaal, r the monthly rate in 1/Schaal
RECURSIVE Macht(_, _)
Macht(r, n) == IF n = 0 THEN Schaal ELSE (Macht(r, n - 1) * (Schaal + r)) \div Schaal

\* maandlast(principal, annual_rate, years), result in 1/Schaal euro;
\* rente is the rate in tenths of a percent, so r = rente/1000/12 = rente/Schaal
maandlast(principal, rente, years) ==
  LET r == rente
      n == years * 12
      m == Macht(r, n)
  IN  IF r = 0 THEN (principal * Schaal) \div n
      ELSE principal * ((r * m) \div (m - Schaal))

\* ---- ReturnSimulator -----------------------------------------------------

\* the generator's state after k draws
RngNa(s, k) == (s + k) % RngStates

\* the standard-normal variate the generator yields in state s: -1, 0 or 1
Variaat(s) == ((2 * s) % 3) - 1

\* np.random.normal(mean_return, volatility): one yearly return in percent,
\* taken as the k-th draw after state s
Rendement(s, k, mean_return, volatility) ==
  mean_return + volatility * Variaat(RngNa(s, k))

\* np.cumprod(1 + jaarlijkse_rendementen, axis=1)[i, -1] in 1/Schaal: the
\* product of the years draws of trial i (row-major draw order)
RECURSIVE Groei(_, _, _, _, _, _)
Groei(s, i, j, years, mean_return, volatility) ==
  IF j = 0 THEN Schaal
  ELSE (Groei(s, i, j - 1, years, mean_return, volatility)
        * (100 + Rendement(s, (i - 1) * years + j, mean_return, volatility))) \div 100

\* faulty variant of Eindwaarde: the capital is off by one euro
EindMutant(startkapitaal, groei) == (startkapitaal + 1) * groei

\* eindwaarden = startkapitaal * groeiperioden[:, -1], one entry
Eindwaarde(startkapitaal, groei) == startkapitaal * groei

\* monte_carlo_etf_return: the vector of terminal values, drawn from state s
monte_carlo_etf_return(s, startkapitaal, mean_return, volatility, years, n_simulaties) ==
  [i \in 1..n_simulaties |->
     Eindwaarde(startkapitaal, Groei(s, i, years, years, mean_return, volatility))]

\* ---- summary statistics --------------------------------------------------

RECURSIVE Som(_)
Som(s) == IF s = <<>> THEN 0 ELSE Head(s) + Som(Tail(s))

\* np.mean
Mean(x) == Som(x) \div Len(x)

\* np.percentile(x, 5): linear interpolation between order statistics
Percentile5(x) ==
  LET srt == SortSeq(x, LAMBDA a, b : a < b)
      q   == (Len(x) - 1) * 5
      lo  == q \div 100
      rem == q % 100
  IN  IF rem = 0 THEN srt[lo + 1]
      ELSE srt[lo + 1] + ((srt[lo + 2] - srt[lo + 1]) * rem) \div 100

\* ---- ScenarioGridGenerator -----------------------------------------------

\* np.arange(start, stop, step) for step > 0
Arange(start, stop, step) ==
  LET n == IF stop <= start THEN 0 ELSE (stop - start + step - 1) \div step
  IN  [k \in 1..n |-> start + (k - 1) * step]

inbreng_values == Arange(0, totale_spaarpot + 1, Stap)

\* number of (looptijd, rente, E) combinations the three nested loops visit
AantalCellen == Len(looptijden) * Len(rentes) * Len(inbreng_values)

\* the combination visited after c combinations, in loop order
CelLooptijd(c) == looptijden[(c \div (Len(rentes) * Len(inbreng_values))) + 1]
CelRente(c) == rentes[((c \div Len(inbreng_values)) % Len(rentes)) + 1]
CelInbreng(c) == inbreng_values[(c % Len(inbreng_values)) + 1]

\* faulty variant of Overslaan: no combination is passed over
NooitOverslaan(L) == FALSE

\* the test "if L < 0: continue"
Overslaan(L) == L < 0

\* the body of the innermost loop for one feasible combination, the
\* generator being in state s: the dictionary appended to results
Scenario(looptijd, rente, E, s) ==
  LET L == woningprijs - E
      maand == maandlast(L, rente, looptijd)
      totale_afbetaling_ == maand * looptijd * 12
      belegbaar == totale_spaarpot - E
      eindwaarden == monte_carlo_etf_return(s, belegbaar, etf_rendement,
                                            etf_volatiliteit, looptijd, simulaties)
      mean_return_sim == Mean(eindwaarden)
      p5_return_sim == Percentile5(eindwaarden)
  IN  [Looptijd |-> looptijd, Rente |-> rente, Inbreng |-> E, Lening |-> L,
       Maandlast |-> maand, TotaleAfbetaling |-> totale_afbetaling_,
       EtfGem |-> mean_return_sim, EtfWorst |-> p5_return_sim,
       NettoKostGemiddeld |-> totale_afbetaling_ - mean_return_sim,
       NettoKostWorst |-> totale_afbetaling_ - p5_return_sim]

\* one combination with L < 0: continue
GridOverslaan ==
  /\ pc = "grid"
  /\ cel < AantalCellen
  /\ Overslaan(woningprijs - CelInbreng(cel))
  /\ cel' = cel + 1
  /\ UNCHANGED <<config, rng, pc, results, optimalisaties, groep, keuze, runs, vorige>>

\* one feasible combination: simulate, append the record; the draws advance
\* the process-global generator by simulaties * looptijd
GridScenario ==
  /\ pc = "grid"
  /\ cel < AantalCellen
  /\ ~Overslaan(woningprijs - CelInbreng(cel))
  /\ results' = Append(results,
                  Scenario(CelLooptijd(cel), CelRente(cel), CelInbreng(cel), rng))
  /\ rng' = RngNa(rng, simulaties * CelLooptijd(cel))
  /\ cel' = cel + 1
  /\ UNCHANGED <<config, pc, optimalisaties, groep, keuze, runs, vorige>>

\* ---- ScenarioOptimizer ---------------------------------------------------

\* the group keys of df.groupby([...]) in the order groupby yields them:
\* sorted by (looptijd, rente)
SleutelVoor(a, b) == a[1] < b[1] \/ (a[1] = b[1] /\ a[2] <= b[2])

RECURSIVE Gesorteerd(_)
Gesorteerd(S) ==
  IF S = {} THEN <<>>
  ELSE LET m == CHOOSE x \in S : \A y \in S : SleutelVoor(x, y)
       IN  <<m>> \o Gesorteerd(S \ {m})

Sleutels(df) == Gesorteerd({<<df[i].Looptijd, df[i].Rente>> : i \in 1..Len(df)})

\* the rows of one group, in the order of df
Groep(df, looptijd, rente) ==
  SelectSeq(df, LAMBDA r : r.Looptijd = looptijd /\ r.Rente = rente)

\* faulty variants of IdxMin: the last occurrence of the minimum, and the
\* first occurrence of the maximum (Series.idxmax)
IdxMinLaatste(kolom) ==
  CHOOSE i \in 1..Len(kolom) :
    /\ \A j \in 1..Len(kolom) : kolom[i] <= kolom[j]
    /\ \A j \in (i + 1)..Len(kolom) : kolom[j] # kolom[i]
IdxMax(kolom) ==
  CHOOSE i \in 1..Len(kolom) :
    /\ \A j \in 1..Len(kolom) : kolom[i] >= kolom[j]
    /\ \A j \in 1..(i - 1) : kolom[j] # kolom[i]

\* Series.idxmin: position of the first occurrence of the minimum
IdxMin(kolom) ==
  CHOOSE i \in 1..Len(kolom) :
    /\ \A j \in 1..Len(kolom) : kolom[i] <= kolom[j]
    /\ \A j \in 1..(i - 1) : kolom[j] # kolom[i]

\* the dictionary appended to optimalisaties for one group
Optimalisatie(looptijd, rente, group) ==
  LET min_kost_mean ==
        group[IdxMin([i \in 1..Len(group) |-> group[i].NettoKostGemiddeld])]
      min_kost_worst ==
        group[IdxMin([i \in 1..Len(group) |-> group[i].NettoKostWorst])]
  IN  [Looptijd |-> looptijd, Rente |-> rente,
       MinNettoKostGemiddeld |-> min_kost_mean.NettoKostGemiddeld,
       InbrengMinKostGemiddeld |-> min_kost_mean.Inbreng,
       MinNettoKostWorst |-> min_kost_worst.NettoKostWorst,
       InbrengMinKostWorst |-> min_kost_worst.Inbreng]

\* df = pd.DataFrame(results); grouped = df.groupby([...]): a DataFrame built
\* from an empty list has no columns, and groupby raises KeyError
GroupBy ==
  /\ pc = "grid"
  /\ cel = AantalCellen
  /\ pc' = IF results = <<>> THEN "KeyError" ELSE "opt"
  /\ groep' = 0
  /\ UNCHANGED <<config, rng, cel, results, optimalisaties, keuze, runs, vorige>>

\* one iteration of "for (looptijd, rente), group in grouped"
Optimaliseer ==
  /\ pc = "opt"
  /\ groep < Len(Sleutels(results))
  /\ LET k == Sleutels(results)[groep + 1]
     IN  optimalisaties' =
           Append(optimalisaties, Optimalisatie(k[1], k[2], Groep(results, k[1], k[2])))
  /\ groep' = groep + 1
  /\ UNCHANGED <<config, rng, pc, cel, results, keuze, runs, vorige>>

\* ---- selection, plot and detail lookup -----------------------------------

Elementen(s) == {s[i] : i \in 1..Len(s)}

df_sel == Groep(results, looptijd_sel, rente_sel)

\* the two selectboxes, df_sel and the two idxmin calls of the plot; idxmin
\* of an empty column raises ValueError
Selecteer ==
  /\ pc = "opt"
  /\ groep = Len(Sleutels(results))
  /\ \E l \in Elementen(looptijden), r \in Elementen(rentes) :
       /\ looptijd_sel' = l
       /\ rente_sel' = r
       /\ pc' = IF Groep(results, l, r) = <<>> THEN "ValueError" ELSE "details"
  /\ UNCHANGED <<config, rng, cel, results, optimalisaties, groep, chosen_inbreng,
                 details, runs, vorige>>

\* the values st.slider(0, int(totale_spaarpot), int(totale_spaarpot // 2),
\* step=1000) can return: the step positions and the initial value
SliderWaarden ==
  Elementen(Arange(0, totale_spaarpot + 1, Stap)) \cup {totale_spaarpot \div 2}

\* faulty variant of Details: the whole table is searched instead of df_sel
DetailsZonderFilter(df, inbreng) ==
  SelectSeq(results, LAMBDA r : r.Inbreng = inbreng)

\* details = df_sel[df_sel["Inbreng"] == chosen_inbreng]
Details(df, inbreng) == SelectSeq(df, LAMBDA r : r.Inbreng = inbreng)

DetailWeergave ==
  /\ pc = "details"
  /\ \E c \in SliderWaarden :
       /\ chosen_inbreng' = c
       /\ details' = Details(df_sel, c)
  /\ pc' = "done"
  /\ UNCHANGED <<config, rng, cel, results, optimalisaties, groep, looptijd_sel,
                 rente_sel, runs, vorige>>

\* Streamlit executes the script again from the top when a widget changes; the
\* inputs are kept, and so is the state of the process-global generator
Rerun ==
  /\ pc = "done"
  /\ runs < MaxRuns
  /\ runs' = runs + 1
  /\ vorige' = results
  /\ pc' = "grid"
  /\ cel' = 0
  /\ results' = <<>>
  /\ optimalisaties' = <<>>
  /\ groep' = 0
  /\ looptijd_sel' = Geen
  /\ rente_sel' = Geen
  /\ chosen_inbreng' = Geen
  /\ details' = <<>>
  /\ UNCHANGED <<config, rng>>

\* ---- specification -------------------------------------------------------

\* the prices, the savings (one of them off the step grid), the term and
\* rate selections (lists without duplicates, as st.multiselect returns
\* them) and the (return, volatility) settings the model starts from
Woningprijzen == {k * Stap : k \in (0 - 1)..MaxBedrag}
Spaarpotten == {k * Stap : k \in (0 - 1)..MaxBedrag} \cup {Stap + Stap \div 2}
LooptijdKeuzes ==
  {s \in {<<>>, <<MaxLooptijd, 1>>} \cup {<<y>> : y \in LooptijdOpties} :
     Elementen(s) \subseteq LooptijdOpties}
RenteKeuzes == {s \in {<<>>, <<38>>, <<38, 25>>} : Elementen(s) \subseteq RenteOpties}
EtfKeuzes == {<<1, 1>>, <<9, 15>>}

Init ==
  /\ woningprijs \in Woningprijzen
  /\ totale_spaarpot \in Spaarpotten
  /\ looptijden \in LooptijdKeuzes
  /\ rentes \in RenteKeuzes
  /\ \E e \in EtfKeuzes : etf_rendement = e[1] /\ etf_volatiliteit = e[2]
  /\ simulaties \in 1..MaxSimulaties
  /\ rng \in 0..(RngStates - 1)
  /\ pc = "grid"
  /\ cel = 0
  /\ results = <<>>
  /\ optimalisaties = <<>>
  /\ groep = 0
  /\ looptijd_sel = Geen
  /\ rente_sel = Geen
  /\ chosen_inbreng = Geen
  /\ details = <<>>
  /\ runs = 1
  /\ vorige = <<>>

Next ==
  \/ GridOverslaan
  \/ GridScenario
  \/ GroupBy
  \/ Optimaliseer
  \/ Selecteer
  \/ DetailWeergave
  \/ Rerun

Spec == Init /\ [][Next]_vars

\* ---- properties ------------------------------------------------------------

Rijen(df) == {df[i] : i \in 1..Len(df)}
Paren == {<<l, r>> : l \in Elementen(looptijden), r \in Elementen(rentes)}
InGroep(o) == {r \in Rijen(results) : r.Looptijd = o.Looptijd /\ r.Rente = o.Rente}

\* C1: no record of the scenario table has a negative loan amount: every
\* record has Lening = woningprijs - Inbreng >= 0, the combinations with
\* Inbreng > woningprijs being passed over while the loop goes on.
C1_NoNegativeLoan ==
  \A r \in Rijen(results) :
    r.Lening >= 0 /\ r.Lening = woningprijs - r.Inbreng /\ r.Inbreng <= woningprijs

\* some combinations were passed over, others emitted, and the run went on
C1_Witness ==
  /\ pc = "done"
  /\ \E c \in 0..(cel - 1) : CelInbreng(c) > woningprijs
  /\ Len(results) >= 2

\* C2: each summary row's minimum (mean and worst case) is <= the net cost
\* of every record of its group, is attained by a record of that group, and
\* the reported down payment is that record's.
C2_GroupMinimum ==
  \A i \in 1..Len(optimalisaties) :
    LET o == optimalisaties[i]
    IN  /\ \A r \in InGroep(o) :
             /\ o.MinNettoKostGemiddeld <= r.NettoKostGemiddeld
             /\ o.MinNettoKostWorst <= r.NettoKostWorst
        /\ \E r \in InGroep(o) :
             /\ r.NettoKostGemiddeld = o.MinNettoKostGemiddeld
             /\ r.Inbreng = o.InbrengMinKostGemiddeld
        /\ \E r \in InGroep(o) :
             /\ r.NettoKostWorst = o.MinNettoKostWorst
             /\ r.Inbreng = o.InbrengMinKostWorst

\* a group of several records with different costs whose two minima are
\* reported at different down payments
C2_Witness ==
  \E i \in 1..Len(optimalisaties) :
    LET o == optimalisaties[i]
    IN  /\ Cardinality(InGroep(o)) >= 3
        /\ o.InbrengMinKostGemiddeld # o.InbrengMinKostWorst
        /\ \E r \in InGroep(o) : r.NettoKostGemiddeld > o.MinNettoKostGemiddeld
        /\ \E r \in InGroep(o) : r.NettoKostWorst > o.MinNettoKostWorst

\* C3: once the optimizer is over, the summary holds exactly one row for
\* every (looptijd, rente) pair of the input and no other row.
C3_OneRowPerPair ==
  pc \notin {"grid", "opt"} =>
    /\ {<<optimalisaties[i].Looptijd, optimalisaties[i].Rente>> :
          i \in 1..Len(optimalisaties)} = Paren
    /\ Len(optimalisaties) = Cardinality(Paren)

\* the down payments the loop has visited for one (looptijd, rente)
Bezocht(l, r) ==
  {CelInbreng(c) : c \in {d \in 0..(cel - 1) : CelLooptijd(d) = l /\ CelRente(d) = r}}

\* C4: when the grid loop is over and totale_spaarpot >= 0, the down payments
\* visited for every requested pair are multiples of the step, none exceeds
\* totale_spaarpot, and both 0 and totale_spaarpot are among them.
C4_GridCoversRange ==
  (pc # "grid" /\ totale_spaarpot >= 0) =>
    \A p \in Paren :
      /\ 0 \in Bezocht(p[1], p[2])
      /\ totale_spaarpot \in Bezocht(p[1], p[2])
      /\ \A e \in Bezocht(p[1], p[2]) : e % Stap = 0 /\ e <= totale_spaarpot

\* C5: a second execution with the same configuration produces the same
\* scenario table as the first.
C5_Reproducible ==
  (runs > 1 /\ pc # "grid") => results = vorige

\* C6: a configuration with a negative price or negative savings never gets
\* past the input boundary, and the optimizer is never entered with an empty
\* scenario table.
C6_RejectedAtBoundary ==
  /\ (woningprijs < 0 \/ totale_spaarpot < 0) => (pc = "grid" /\ cel = 0)
  /\ pc # "KeyError"

\* the records of the table for a (looptijd, rente, inbreng) triple
Treffers(l, r, e) ==
  {x \in Rijen(results) : x.Looptijd = l /\ x.Rente = r /\ x.Inbreng = e}

\* C7: the lookup yields a record exactly when the table holds one for the
\* chosen triple, and then it is that record; otherwise the result is empty
\* and the script ends normally.
C7_Lookup ==
  pc = "done" =>
    /\ details # <<>> <=> Treffers(looptijd_sel, rente_sel, chosen_inbreng) # {}
    /\ details # <<>> =>
         details[1] \in Treffers(looptijd_sel, rente_sel, chosen_inbreng)
    /\ Len(details) <= 1

\* a record is found while another group holds the same down payment
C7_Witness ==
  /\ pc = "done"
  /\ details # <<>>
  /\ \E x \in Rijen(results) :
       x.Inbreng = chosen_inbreng /\ x \notin InGroep(details[1])

\* C8: with startkapitaal 0 every terminal value is 0 whatever the draws, so
\* every record with Inbreng = totale_spaarpot has both investment values 0
\* and both net costs equal to the total repayment.
C8_ZeroCapital ==
  /\ \A s \in 0..(RngStates - 1), y \in Elementen(looptijden) :
       \A i \in 1..simulaties :
         monte_carlo_etf_return(s, 0, etf_rendement, etf_volatiliteit, y, simulaties)[i] = 0
  /\ \A r \in Rijen(results) :
       r.Inbreng = totale_spaarpot =>
         /\ r.EtfGem = 0
         /\ r.EtfWorst = 0
         /\ r.NettoKostGemiddeld = r.TotaleAfbetaling
         /\ r.NettoKostWorst = r.TotaleAfbetaling

\* everything is put down, under nonzero volatility and a nonzero loan
C8_Witness ==
  /\ etf_volatiliteit > 0
  /\ totale_spaarpot > 0
  /\ \E r \in Rijen(results) :
       r.Inbreng = totale_spaarpot /\ r.TotaleAfbetaling > 0

\* C9: within a group the records are in ascending order of down payment, and
\* when several share the minimal net cost (mean or worst case) the summary
\* reports the smallest down payment among them.
C9_TieBreak ==
  /\ \A i \in 1..Len(results) : \A j \in (i + 1)..Len(results) :
       (results[i].Looptijd = results[j].Looptijd
          /\ results[i].Rente = results[j].Rente) =>
         results[i].Inbreng < results[j].Inbreng
  /\ \A i \in 1..Len(optimalisaties) :
       LET o == optimalisaties[i]
       IN  /\ \A r \in InGroep(o) :
                r.NettoKostGemiddeld = o.MinNettoKostGemiddeld =>
                  o.InbrengMinKostGemiddeld <= r.Inbreng
           /\ \A r \in InGroep(o) :
                r.NettoKostWorst = o.MinNettoKostWorst =>
                  o.InbrengMinKostWorst <= r.Inbreng

\* two records of a reduced group share the minimal mean net cost
C9_Witness ==
  \E i \in 1..Len(optimalisaties) :
    LET o == optimalisaties[i]
    IN  \E r \in InGroep(o) :
          /\ r.NettoKostGemiddeld = o.MinNettoKostGemiddeld
          /\ r.Inbreng > o.InbrengMinKostGemiddeld

\* C10: computing a grid cell writes no state shared with other cells: the
\* generator the next cell will draw from is left as it was.
C10_NoSharedState == [][cel' = cel + 1 => rng' = rng]_vars

====
